---- MODULE Spec2Model ----
(***************************************************************************)
(* A model of inotify/adapters.py: the Inotify channel (watch registry,    *)
(* byte-stream decoder, event_gen poll loop) and the _BaseTree layer that  *)
(* keeps the watch set in step with the directory tree.                    *)
(*                                                                         *)
(* Python values are written as follows: None is the empty tuple <<>>, an  *)
(* optional value v is <<v>>, a dict is a function whose DOMAIN is its key *)
(* set, an event is the 4-tuple <<header, type_names, path, filename>>,    *)
(* bytes are sequences of 0..255 and text (a path, a file name) is the     *)
(* sequence of its characters: "/a/b" is <<"/", "a", "/", "b">>.           *)
(***************************************************************************)
EXTENDS Integers, Sequences, FiniteSets, TLC

VARIABLES
    watches,              \* Inotify.__watches: path -> wd
    watches_r,            \* Inotify.__watches_r: wd -> path
    buffer,               \* Inotify.__buffer: bytes read and not yet decoded
    last_success_return,  \* Inotify.__last_success_return
    kwatch,               \* kernel facility: wd -> watched inode
    knext,                \* kernel facility: next watch descriptor to hand out
    kqueue,               \* kernel facility: bytes queued on the inotify fd
    kcalls,               \* kernel calls issued by the most recent operation
    fs,                   \* file system: inode -> [parent, name] of each directory
    fsops,                \* number of environment operations performed so far
    cfg,                  \* arguments of the constructors and of event_gen
    pc,                   \* where the event_gen generator stands
    last_hit_s,           \* event_gen local: time of the most recent decoded event
    now,                  \* time.time()
    chan_out,             \* what Inotify.event_gen yielded last
    exc,                  \* the exception the last operation raised, <<>> if none
    decoded,              \* history: events _handle_inotify_event yielded
    dropped,              \* history: headers consumed from the buffer and not yielded
    yielded,              \* history: events handed to the consumer
    trace,                \* history of a tree: what each generator yielded, in order
    made,                 \* history: the directories made, each with the watch its
                          \* parent had in the registry when it was made (0 if none)
                          \* and whether the kernel's queue had room for the record
    since,                \* history: when the stream started or last decoded an event
    lastop                \* history: the operation that acted last, with its inputs

vars == <<watches, watches_r, buffer, last_success_return, kwatch, knext, kqueue,
          kcalls, fs, fsops, cfg, pc, last_hit_s, now, chan_out, exc, decoded,
          dropped, yielded, trace, made, since, lastop>>

-----------------------------------------------------------------------------
(* Bounds of the model. *)

MaxDirs == 2        \* directories that can exist besides the two roots
MaxOps == 2         \* changes of the file system in the tree specification
MaxRecords == 3     \* records of the byte stream in the decoding specification
MaxQueue == 2       \* events the kernel queues before it reports an overflow
MaxArrival == 2     \* records that arrive while a timed stream runs

-----------------------------------------------------------------------------
(* Python values. *)

None == <<>>
Some(v) == <<v>>

Min(a, b) == IF a < b THEN a ELSE b

\* d with key k removed (del d[k], k known to be present)
DictDel(d, k) == [x \in (DOMAIN d) \ {k} |-> d[x]]

\* d with d[k] = v (assignment to a dict item)
DictSet(d, k, v) == [x \in (DOMAIN d) \cup {k} |-> IF x = k THEN v ELSE d[x]]

EmptyDict == [x \in {} |-> None]

Slash == "/"

-----------------------------------------------------------------------------
(* Constants of the program and of the kernel interface. *)

_STRUCT_HEADER_LENGTH == 16     \* struct.calcsize('iIII')
READ_SIZE == 1024               \* os.read(wd, 1024)
_DEFAULT_EPOLL_BLOCK_DURATION_S == 1

IN_MODIFY == 2
IN_MOVED_FROM == 64
IN_MOVED_TO == 128
IN_CREATE == 256
IN_DELETE == 512
IN_UNMOUNT == 8192
IN_Q_OVERFLOW == 16384
IN_IGNORED == 32768
IN_ISDIR == 1073741824

_DEFAULT_TERMINAL_EVENTS == {"IN_Q_OVERFLOW", "IN_UNMOUNT"}

\* mask & bit, for a one-bit constant
HasBit(mask, bit) == (mask \div bit) % 2 = 1

\* the defined bits in ascending order, each with its symbolic name
MaskBits ==
    << <<IN_MODIFY, "IN_MODIFY">>, <<IN_MOVED_FROM, "IN_MOVED_FROM">>,
       <<IN_MOVED_TO, "IN_MOVED_TO">>, <<IN_CREATE, "IN_CREATE">>,
       <<IN_DELETE, "IN_DELETE">>, <<IN_UNMOUNT, "IN_UNMOUNT">>,
       <<IN_Q_OVERFLOW, "IN_Q_OVERFLOW">>, <<IN_IGNORED, "IN_IGNORED">>,
       <<IN_ISDIR, "IN_ISDIR">> >>

RECURSIVE NamesFrom(_, _)
NamesFrom(mask, i) ==
    IF i > Len(MaskBits) THEN <<>>
    ELSE (IF HasBit(mask, MaskBits[i][1]) THEN <<MaskBits[i][2]>> ELSE <<>>)
         \o NamesFrom(mask, i + 1)

\* Inotify._get_event_names: one name per bit set in the mask
_get_event_names(event_type) == NamesFrom(event_type, 1)

-----------------------------------------------------------------------------
(* The record format: struct 'iIII' (little endian) followed by the name,  *)
(* right-padded with NULs.                                                 *)

\* byte i (0 = least significant) of the two's complement form of v
ByteOf(v, i) == (v \div (256 ^ i)) % 256

Pack32(v) == <<ByteOf(v, 0), ByteOf(v, 1), ByteOf(v, 2), ByteOf(v, 3)>>

\* struct format 'I'
UnpackU32(b) == b[1] + 256 * b[2] + 65536 * b[3] + 16777216 * b[4]

\* struct format 'i'
UnpackI32(b) ==
    b[1] + 256 * b[2] + 65536 * b[3]
         + 16777216 * (IF b[4] >= 128 THEN b[4] - 256 ELSE b[4])

\* the characters that occur in names, with their UTF-8 (ASCII) byte
CharCodes == { <<"/", 47>>, <<"a", 97>>, <<"b", 98>>, <<"c", 99>>, <<"x", 120>> }

Ord(ch) == (CHOOSE p \in CharCodes : p[1] = ch)[2]
Chr(byte) == (CHOOSE p \in CharCodes : p[2] = byte)[1]

Nuls(n) == [i \in 1 .. n |-> 0]

\* str.encode('utf8'), for ASCII text
Utf8Encode(t) == [i \in 1 .. Len(t) |-> Ord(t[i])]

\* the name field the kernel writes: empty for an event on the watched directory
\* itself, else the name, NUL-terminated and padded to a multiple of 16 bytes
NameField(name) ==
    IF name = <<>> THEN <<>>
    ELSE Utf8Encode(name) \o Nuls(16 * ((Len(name) + 16) \div 16) - Len(name))

\* the bytes of one record as the kernel writes it
Record(wd, mask, cookie, name) ==
    Pack32(wd) \o Pack32(mask) \o Pack32(cookie)
               \o Pack32(Len(NameField(name))) \o NameField(name)

\* struct.unpack(_HEADER_STRUCT_FORMAT, peek_slice) as _INOTIFY_EVENT
UnpackHeader(b) ==
    [wd |-> UnpackI32(SubSeq(b, 1, 4)),
     mask |-> UnpackU32(SubSeq(b, 5, 8)),
     cookie |-> UnpackU32(SubSeq(b, 9, 12)),
     len |-> UnpackU32(SubSeq(b, 13, 16))]

\* the length of t[1..n] without the trailing elements equal to x
RECURSIVE StrippedLen(_, _, _)
StrippedLen(t, n, x) ==
    IF n = 0 THEN 0
    ELSE IF t[n] = x THEN StrippedLen(t, n - 1, x)
    ELSE n

\* bytes.rstrip(b'\0')
RStripNul(b) == SubSeq(b, 1, StrippedLen(b, Len(b), 0))

\* bytes.decode('utf8'), for ASCII names
Utf8Decode(b) == [i \in 1 .. Len(b) |-> Chr(b[i])]

\* the length of the record that starts after the first `from` bytes of q
RecordLenAt(q, from) ==
    _STRUCT_HEADER_LENGTH + UnpackU32(SubSeq(q, from + 13, from + 16))

\* the number of whole records of q after its first `from` bytes
RECURSIVE RecordsFrom(_, _)
RecordsFrom(q, from) ==
    IF Len(q) - from < _STRUCT_HEADER_LENGTH THEN 0
    ELSE IF Len(q) - from < RecordLenAt(q, from) THEN 0
    ELSE 1 + RecordsFrom(q, from + RecordLenAt(q, from))

\* the number of whole records at the front of a byte sequence
RecordCount(q) == RecordsFrom(q, 0)

\* the end of the longest run of whole records of q that starts after its first
\* `from` bytes and ends within its first `size` bytes
RECURSIVE WholeFrom(_, _, _)
WholeFrom(q, from, size) ==
    IF Len(q) - from < _STRUCT_HEADER_LENGTH THEN from
    ELSE IF from + RecordLenAt(q, from) > Min(size, Len(q)) THEN from
    ELSE WholeFrom(q, from + RecordLenAt(q, from), size)

\* the length of the longest prefix of whole records that fits in `size` bytes
WholePrefix(q, size) == WholeFrom(q, 0, size)

-----------------------------------------------------------------------------
(* Text and paths. *)

\* str.rstrip('/')
RStripSlash(t) == SubSeq(t, 1, StrippedLen(t, Len(t), Slash))

\* os.path.join(path, filename)
PathJoin(path, filename) ==
    IF filename # <<>> /\ Head(filename) = Slash THEN filename
    ELSE IF path = <<>> \/ path[Len(path)] = Slash THEN path \o filename
    ELSE path \o <<Slash>> \o filename

\* t[:n].rfind('/') + 1
RECURSIVE RFindSlash(_, _)
RFindSlash(t, n) ==
    IF n = 0 THEN 0
    ELSE IF t[n] = Slash THEN n
    ELSE RFindSlash(t, n - 1)

\* os.path.split(p): <<head, tail>>
PathSplit(p) ==
    LET i == RFindSlash(p, Len(p))
        head == SubSeq(p, 1, i)
        tail == SubSeq(p, i + 1, Len(p))
    IN  <<IF RStripSlash(head) # <<>> THEN RStripSlash(head) ELSE head, tail>>

-----------------------------------------------------------------------------
(* The file system: the directories that exist.  fs[i].parent = 0 marks a  *)
(* root, whose name is its full path.  Inode 1 is the watched root /a,     *)
(* inode 2 is /x, a directory outside every watched tree; the others are   *)
(* the directories that are made, removed and renamed.                     *)

RootPath == <<"/", "a">>
OutsidePath == <<"/", "x">>
DirNames == { <<"b">>, <<"c">> }
DirInodes == 3 .. (MaxDirs + 2)

RECURSIVE PathOf(_, _)
PathOf(f, i) ==
    IF f[i].parent = 0 THEN f[i].name
    ELSE PathJoin(PathOf(f, f[i].parent), f[i].name)

\* the inode a path names (the kernel ignores trailing slashes), 0 if none
Resolve(f, path) ==
    LET hits == {i \in DOMAIN f : PathOf(f, i) = RStripSlash(path)}
    IN  IF hits = {} THEN 0 ELSE CHOOSE i \in hits : TRUE

\* os.path.exists(path)
PathExists(f, path) == Resolve(f, path) # 0

\* the subdirectories of the directory at dirpath, as os.walk lists them
SubdirNames(f, dirpath) ==
    {f[i].name : i \in {j \in DOMAIN f : f[j].parent # 0
                                          /\ f[j].parent = Resolve(f, dirpath)}}

RECURSIVE IsAncestor(_, _, _)
IsAncestor(f, a, i) ==
    /\ f[i].parent # 0
    /\ (f[i].parent = a \/ IsAncestor(f, a, f[i].parent))

-----------------------------------------------------------------------------
(* The kernel facility behind inotify.calls.  A machine state s is the     *)
(* record of the registry and of the kernel's tables that the operations   *)
(* below thread through a call: s.ret is the value returned, s.exc the     *)
(* exception raised (<<>> if none).                                        *)

Machine ==
    [watches |-> watches, watches_r |-> watches_r, kwatch |-> kwatch,
     knext |-> knext, kqueue |-> kqueue, kcalls |-> <<>>, ret |-> None,
     exc |-> None]

OverflowRecord == Record(-1, IN_Q_OVERFLOW, 0, <<>>)

\* the kernel queues a record; a full queue takes the overflow record and no more
KEnqueue(q, rec) ==
    IF RecordCount(q) < MaxQueue THEN q \o rec
    ELSE IF RecordCount(q) = MaxQueue THEN q \o OverflowRecord
    ELSE q

WdOf(kw, inode) ==
    IF \E wd \in DOMAIN kw : kw[wd] = inode
    THEN CHOOSE wd \in DOMAIN kw : kw[wd] = inode
    ELSE 0

\* inotify.calls.inotify_add_watch: the watch descriptor of the directory the path
\* names (the one it has already, if it is watched), InotifyError if there is none
inotify_add_watch(s, f, path) ==
    LET i == Resolve(f, path)
        t == [s EXCEPT !.kcalls = Append(@, <<"add_watch", path>>)]
    IN  IF i = 0 THEN [t EXCEPT !.exc = <<"InotifyError">>]
        ELSE IF WdOf(s.kwatch, i) # 0 THEN [t EXCEPT !.ret = WdOf(s.kwatch, i)]
        ELSE [t EXCEPT !.ret = s.knext,
                       !.kwatch = DictSet(@, s.knext, i),
                       !.knext = @ + 1]

\* inotify.calls.inotify_rm_watch: InotifyError if the kernel does not know wd,
\* else the watch is dropped and the kernel queues IN_IGNORED for it
inotify_rm_watch(s, wd) ==
    LET t == [s EXCEPT !.kcalls = Append(@, <<"rm_watch", wd>>)]
    IN  IF wd \notin DOMAIN s.kwatch THEN [t EXCEPT !.exc = <<"InotifyError">>]
        ELSE [t EXCEPT !.kwatch = DictDel(@, wd),
                       !.kqueue = KEnqueue(@, Record(wd, IN_IGNORED, 0, <<>>))]

-----------------------------------------------------------------------------
(* The watch registry of Inotify. *)

\* an add_watch that asks the kernel without looking the path up first
add_watch_unchecked(s, f, path_unicode) ==
    LET t == inotify_add_watch(s, f, path_unicode)
    IN  IF t.exc # None THEN t
        ELSE [t EXCEPT !.watches = DictSet(@, path_unicode, t.ret),
                       !.watches_r = DictSet(@, t.ret, path_unicode)]

\* Inotify.add_watch
add_watch(s, f, path_unicode) ==
    IF path_unicode \in DOMAIN s.watches THEN [s EXCEPT !.ret = None]
    ELSE LET t == inotify_add_watch(s, f, path_unicode)
         IN  IF t.exc # None THEN t
             ELSE [t EXCEPT !.watches = DictSet(@, path_unicode, t.ret),
                            !.watches_r = DictSet(@, t.ret, path_unicode)]

\* a _remove_watch that calls the kernel in every removal mode
_remove_watch_always_kernel(s, wd, path, superficial) ==
    LET t == IF superficial = "None" THEN s
             ELSE IF path \notin DOMAIN s.watches
                  THEN [s EXCEPT !.exc = <<"KeyError">>]
             ELSE IF wd \notin DOMAIN s.watches_r
                  THEN [s EXCEPT !.watches = DictDel(@, path),
                                 !.exc = <<"KeyError">>]
             ELSE [s EXCEPT !.watches = DictDel(@, path),
                            !.watches_r = DictDel(@, wd)]
    IN  IF t.exc # None THEN [t EXCEPT !.ret = None]
        ELSE [inotify_rm_watch(t, wd) EXCEPT !.ret = None]

\* a _remove_watch that asks the kernel first and forgets the watch on success
_remove_watch_kernel_first(s, wd, path, superficial) ==
    LET k == IF superficial = "False" THEN inotify_rm_watch(s, wd) ELSE s
        t == IF k.exc # None \/ superficial = "None" THEN k
             ELSE IF path \notin DOMAIN k.watches
                  THEN [k EXCEPT !.exc = <<"KeyError">>]
             ELSE IF wd \notin DOMAIN k.watches_r
                  THEN [k EXCEPT !.watches = DictDel(@, path),
                                 !.exc = <<"KeyError">>]
             ELSE [k EXCEPT !.watches = DictDel(@, path),
                            !.watches_r = DictDel(@, wd)]
    IN  [t EXCEPT !.ret = None]

\* Inotify._remove_watch; superficial is "False", "True" or "None"
_remove_watch(s, wd, path, superficial) ==
    LET t == IF superficial = "None" THEN s
             ELSE IF path \notin DOMAIN s.watches
                  THEN [s EXCEPT !.exc = <<"KeyError">>]
             ELSE IF wd \notin DOMAIN s.watches_r
                  THEN [s EXCEPT !.watches = DictDel(@, path),
                                 !.exc = <<"KeyError">>]
             ELSE [s EXCEPT !.watches = DictDel(@, path),
                            !.watches_r = DictDel(@, wd)]
    IN  IF t.exc # None \/ superficial # "False" THEN [t EXCEPT !.ret = None]
        ELSE [inotify_rm_watch(t, wd) EXCEPT !.ret = None]

\* a remove_watch that hands an unknown path on to _remove_watch
remove_watch_unchecked(s, path, superficial) ==
    _remove_watch(s, IF path \in DOMAIN s.watches THEN s.watches[path] ELSE 0, path,
                  superficial)

\* Inotify.remove_watch
remove_watch(s, path, superficial) ==
    IF path \notin DOMAIN s.watches THEN [s EXCEPT !.ret = None]
    ELSE _remove_watch(s, s.watches[path], path, superficial)

\* Inotify.remove_watch_with_id
remove_watch_with_id(s, wd, superficial) ==
    IF wd \notin DOMAIN s.watches_r THEN [s EXCEPT !.ret = None]
    ELSE _remove_watch(s, wd, s.watches_r[wd], superficial)

\* the machine state becomes the state
Commit(s) ==
    /\ watches' = s.watches
    /\ watches_r' = s.watches_r
    /\ kwatch' = s.kwatch
    /\ knext' = s.knext
    /\ kqueue' = s.kqueue
    /\ kcalls' = s.kcalls

-----------------------------------------------------------------------------
(* Configurations and initial values. *)

\* the arguments of the constructors and of event_gen, at their defaults
DefaultCfg ==
    [layer |-> "channel",                 \* "channel": Inotify, "tree": InotifyTree
     fragment |-> FALSE,                  \* reads may end inside a record
     timeout_s |-> None,
     yield_nones |-> TRUE,
     filter_predicate |-> None,           \* Some(S): returns False for the names in S
     terminal_events |-> _DEFAULT_TERMINAL_EVENTS,
     ignore_missing_new_folders |-> FALSE,
     ignored_dirs |-> EmptyDict,          \* _BaseTree._ignored_dirs
     stream |-> <<>>]                     \* the records <<wd, mask, name>> prepared
                                          \* for the descriptor (SpecDecode)

Op(name, path, wd, superficial) ==
    [op |-> name, path |-> path, wd |-> wd, superficial |-> superficial]

\* the machine state of a fresh Inotify object and a kernel that holds no watch
Machine0 ==
    [watches |-> EmptyDict, watches_r |-> EmptyDict, kwatch |-> EmptyDict,
     knext |-> 1, kqueue |-> <<>>, kcalls |-> <<>>, ret |-> None, exc |-> None]

\* Inotify.__init__, and the registry and kernel tables as the machine state s
\* gives them: s is Machine0 after the calls of the constructor
InotifyInit(s) ==
    /\ watches = s.watches
    /\ watches_r = s.watches_r
    /\ kwatch = s.kwatch
    /\ knext = s.knext
    /\ kqueue = s.kqueue
    /\ buffer = <<>>
    /\ last_success_return = None
    /\ kcalls = <<>>
    /\ fsops = 0
    /\ pc = "new"
    /\ last_hit_s = 0
    /\ now = 0
    /\ chan_out = None
    /\ exc = None
    /\ decoded = <<>>
    /\ dropped = <<>>
    /\ yielded = <<>>
    /\ trace = <<>>
    /\ made = <<>>
    /\ since = 0
    /\ lastop = Op("init", <<>>, 0, "")

\* /a, /x and /a/b
FsWithB ==
    (1 :> [parent |-> 0, name |-> RootPath]) @@ (2 :> [parent |-> 0, name |-> OutsidePath])
    @@ (3 :> [parent |-> 1, name |-> <<"b">>])

-----------------------------------------------------------------------------
(* SpecRegistry: a caller drives add_watch, remove_watch and               *)
(* remove_watch_with_id of one Inotify object over a fixed directory tree. *)

MaxCalls == 4

\* the paths the caller passes: /a, /a/ (the same directory), /a/b, /a/c (missing)
ApiPaths == { RootPath, RootPath \o <<Slash>>, RootPath \o <<Slash, "b">>,
              RootPath \o <<Slash, "c">> }

RemovalModes == {"False", "True", "None"}

ApiFrame ==
    UNCHANGED <<buffer, last_success_return, fs, cfg, pc, last_hit_s, now, chan_out,
                decoded, dropped, yielded, trace, made, since>>

ApiAddWatch(path) ==
    /\ fsops < MaxCalls
    /\ LET s == add_watch(Machine, fs, path)
       IN  Commit(s) /\ exc' = s.exc
    /\ fsops' = fsops + 1
    /\ lastop' = Op("add_watch", path, 0, "")
    /\ ApiFrame

ApiRemoveWatch(path, superficial) ==
    /\ fsops < MaxCalls
    /\ LET s == remove_watch(Machine, path, superficial)
       IN  Commit(s) /\ exc' = s.exc
    /\ fsops' = fsops + 1
    /\ lastop' = Op("remove_watch", path, 0, superficial)
    /\ ApiFrame

ApiRemoveWatchWithId(wd, superficial) ==
    /\ fsops < MaxCalls
    /\ LET s == remove_watch_with_id(Machine, wd, superficial)
       IN  Commit(s) /\ exc' = s.exc
    /\ fsops' = fsops + 1
    /\ lastop' = Op("remove_watch_with_id", <<>>, wd, superficial)
    /\ ApiFrame

RegistryInit == InotifyInit(Machine0) /\ fs = FsWithB /\ cfg = DefaultCfg

RegistryNext ==
    \/ \E path \in ApiPaths : ApiAddWatch(path)
    \/ \E path \in ApiPaths, m \in RemovalModes : ApiRemoveWatch(path, m)
    \/ \E wd \in 1 .. knext, m \in RemovalModes : ApiRemoveWatchWithId(wd, m)

SpecRegistry == RegistryInit /\ [][RegistryNext]_vars

-----------------------------------------------------------------------------
(* The decoder, Inotify._handle_inotify_event, and the poll loop,          *)
(* Inotify.event_gen.  pc is where the generator stands:                   *)
(*   "new"          created, not yet started                               *)
(*   "poll"         about to call epoll.poll (line 237)                    *)
(*   "decode"       inside _handle_inotify_event, at the top of its loop   *)
(*   "yield_e"      Inotify.event_gen suspended at `yield e` (line 274)    *)
(*   "yield_none"   Inotify.event_gen suspended at `yield None` (line 282) *)
(*   "tree_yield"   _BaseTree.event_gen suspended at its yield (line 398)  *)
(*   "done_timeout" returned by the timeout `break`                        *)
(*   "done_filter"  returned because the filter predicate said False       *)
(*   "raised"       ended by the exception held in exc                     *)

Ended == pc \in {"done_timeout", "done_filter", "raised"}

\* a decoder pass that forgets the part of a record it has read so far
DecodeFrontLosingTail(buf, wr) ==
    LET length == Len(buf)
        header == UnpackHeader(SubSeq(buf, 1, _STRUCT_HEADER_LENGTH))
        type_names == _get_event_names(header.mask)
        event_length == _STRUCT_HEADER_LENGTH + header.len
        filename == SubSeq(buf, _STRUCT_HEADER_LENGTH + 1, event_length)
        filename_bytes == RStripNul(filename)
        rest == SubSeq(buf, event_length + 1, length)
    IN  IF length < _STRUCT_HEADER_LENGTH
        THEN [kind |-> "return", buffer |-> buf, header |-> None, event |-> None]
        ELSE IF length < event_length
        THEN [kind |-> "return", buffer |-> <<>>, header |-> None, event |-> None]
        ELSE IF header.wd \in DOMAIN wr
        THEN [kind |-> "yield", buffer |-> rest, header |-> header,
              event |-> <<header, type_names, wr[header.wd], Utf8Decode(filename_bytes)>>]
        ELSE [kind |-> "drop", buffer |-> rest, header |-> header, event |-> None]

\* a decoder pass that, for a record of an unknown watch, consumes the header only
DecodeFrontHeaderOnly(buf, wr) ==
    LET length == Len(buf)
        header == UnpackHeader(SubSeq(buf, 1, _STRUCT_HEADER_LENGTH))
        type_names == _get_event_names(header.mask)
        event_length == _STRUCT_HEADER_LENGTH + header.len
        filename == SubSeq(buf, _STRUCT_HEADER_LENGTH + 1, event_length)
        filename_bytes == RStripNul(filename)
        rest == SubSeq(buf, event_length + 1, length)
    IN  IF length < _STRUCT_HEADER_LENGTH
        THEN [kind |-> "return", buffer |-> buf, header |-> None, event |-> None]
        ELSE IF length < event_length
        THEN [kind |-> "return", buffer |-> buf, header |-> None, event |-> None]
        ELSE IF header.wd \in DOMAIN wr
        THEN [kind |-> "yield", buffer |-> rest, header |-> header,
              event |-> <<header, type_names, wr[header.wd], Utf8Decode(filename_bytes)>>]
        ELSE [kind |-> "drop", buffer |-> SubSeq(buf, _STRUCT_HEADER_LENGTH + 1, length), header |-> header, event |-> None]

\* one pass of the `while 1` loop of _handle_inotify_event over the buffer buf with
\* the registry wr: "return" (the generator ends), or a record is consumed and is
\* either yielded ("yield") or, its watch unknown, passed over ("drop")
DecodeFront(buf, wr) ==
    LET length == Len(buf)
        header == UnpackHeader(SubSeq(buf, 1, _STRUCT_HEADER_LENGTH))
        type_names == _get_event_names(header.mask)
        event_length == _STRUCT_HEADER_LENGTH + header.len
        filename == SubSeq(buf, _STRUCT_HEADER_LENGTH + 1, event_length)
        filename_bytes == RStripNul(filename)
        rest == SubSeq(buf, event_length + 1, length)
    IN  IF length < _STRUCT_HEADER_LENGTH
        THEN [kind |-> "return", buffer |-> buf, header |-> None, event |-> None]
        ELSE IF length < event_length
        THEN [kind |-> "return", buffer |-> buf, header |-> None, event |-> None]
        ELSE IF header.wd \in DOMAIN wr
        THEN [kind |-> "yield", buffer |-> rest, header |-> header,
              event |-> <<header, type_names, wr[header.wd], Utf8Decode(filename_bytes)>>]
        ELSE [kind |-> "drop", buffer |-> rest, header |-> header, event |-> None]

\* filter_predicate(type_name, e) is False
PredicateSaysFalse(filter_predicate, type_name) ==
    filter_predicate # None /\ type_name \in filter_predicate[1]

\* a names loop that tests the terminal names before the filter predicate
RECURSIVE NamesLoopTerminalFirst(_, _, _, _)
NamesLoopTerminalFirst(type_names, i, filter_predicate, terminal_events) ==
    IF i > Len(type_names) THEN <<"yield">>
    ELSE IF type_names[i] \in terminal_events
    THEN <<"raise", type_names[i]>>
    ELSE IF PredicateSaysFalse(filter_predicate, type_names[i])
    THEN <<"return", type_names[i]>>
    ELSE NamesLoopTerminalFirst(type_names, i + 1, filter_predicate, terminal_events)

\* the `for type_name in type_names` loop of event_gen from position i on:
\* <<"return", name>>, <<"raise", name>> or <<"yield">>
RECURSIVE NamesLoop(_, _, _, _)
NamesLoop(type_names, i, filter_predicate, terminal_events) ==
    IF i > Len(type_names) THEN <<"yield">>
    ELSE IF PredicateSaysFalse(filter_predicate, type_names[i])
    THEN <<"return", type_names[i]>>
    ELSE IF type_names[i] \in terminal_events
    THEN <<"raise", type_names[i]>>
    ELSE NamesLoop(type_names, i + 1, filter_predicate, terminal_events)

\* a timeout test that already fires when the elapsed time equals timeout_s
TimedOutInclusive(timeout_s, time, last_hit) ==
    timeout_s # None /\ time - last_hit >= timeout_s[1]

\* the timeout test of event_gen (lines 242-245 and 276-279)
TimedOut(timeout_s, time, last_hit) ==
    timeout_s # None /\ time - last_hit > timeout_s[1]

\* Inotify.event_gen yields x (lines 274, 282); under a tree the order of the
\* yields of the two generators is kept
ChannelYields(x) ==
    trace' = IF cfg.layer = "tree" THEN Append(trace, <<"channel", x>>) ELSE trace

\* an end of cycle that yields the placeholder only when the poll found nothing
EndOfCycleIdleOnly ==
    IF TimedOut(cfg.timeout_s, now, last_hit_s)
    THEN pc' = "done_timeout" /\ UNCHANGED <<chan_out, trace>>
    ELSE IF cfg.yield_nones /\ pc = "poll"
    THEN pc' = "yield_none" /\ chan_out' = None /\ ChannelYields(None)
    ELSE pc' = "poll" /\ UNCHANGED <<chan_out, trace>>

\* the end of a poll cycle (lines 276-282)
EndOfCycle ==
    IF TimedOut(cfg.timeout_s, now, last_hit_s)
    THEN pc' = "done_timeout" /\ UNCHANGED <<chan_out, trace>>
    ELSE IF cfg.yield_nones
    THEN pc' = "yield_none" /\ chan_out' = None /\ ChannelYields(None)
    ELSE pc' = "poll" /\ UNCHANGED <<chan_out, trace>>

StreamFrame == UNCHANGED <<watches, watches_r, kwatch, knext, kcalls, fs, fsops, cfg, lastop>>

\* a start of the generator that leaves last_success_return as the stream before
\* left it
StartWithoutReset ==
    /\ pc = "new"
    /\ last_hit_s' = now
    /\ since' = now
    /\ pc' = "poll"
    /\ UNCHANGED <<last_success_return, buffer, kqueue, now, chan_out, exc, decoded,
                   dropped, yielded, trace, made>>
    /\ UNCHANGED <<watches, watches_r, kwatch, knext, kcalls, fs, fsops, cfg, lastop>>

\* the first next() on the generator: lines 228-230
Start ==
    /\ pc = "new"
    /\ last_success_return' = None
    /\ last_hit_s' = now
    /\ since' = now
    /\ pc' = "poll"
    /\ UNCHANGED <<buffer, kqueue, now, chan_out, exc, decoded, dropped, yielded, trace, made>>
    /\ StreamFrame

\* the number of bytes os.read(fd, 1024) may return: the whole records that fit, or,
\* where the transport fragments, any non-empty part of what is queued
ReadSizes ==
    IF cfg.fragment THEN 1 .. Min(READ_SIZE, Len(kqueue))
    ELSE {WholePrefix(kqueue, READ_SIZE)}

\* epoll.poll reports the descriptor readable; _handle_inotify_event reads and
\* appends to the buffer (lines 237, 251, 171-175)
PollReady ==
    /\ pc = "poll"
    /\ kqueue # <<>>
    /\ \E n \in ReadSizes :
          /\ n > 0
          /\ buffer' = buffer \o SubSeq(kqueue, 1, n)
          /\ kqueue' = SubSeq(kqueue, n + 1, Len(kqueue))
    /\ pc' = "decode"
    /\ UNCHANGED <<last_success_return, last_hit_s, now, chan_out, exc, decoded,
                   dropped, yielded, trace, made, since>>
    /\ StreamFrame

\* epoll.poll returns no descriptor: the cycle ends (lines 237, 276-282)
PollEmpty ==
    /\ pc = "poll"
    /\ kqueue = <<>>
    /\ EndOfCycle
    /\ UNCHANGED <<buffer, kqueue, last_success_return, last_hit_s, now, exc, decoded,
                   dropped, yielded, made, since>>
    /\ StreamFrame

\* epoll.poll is interrupted by a signal, EINTR (lines 238-247)
PollInterrupted ==
    /\ pc = "poll"
    /\ pc' = IF TimedOut(cfg.timeout_s, now, last_hit_s) THEN "done_timeout" ELSE "poll"
    /\ UNCHANGED <<buffer, kqueue, last_success_return, last_hit_s, now, chan_out, exc,
                   decoded, dropped, yielded, trace, made, since>>
    /\ StreamFrame

\* one pass of the decoder's loop and, if it yields, the body of event_gen's inner
\* for loop (lines 177-216, 261-274)
DecodeStep ==
    /\ pc = "decode"
    /\ LET r == DecodeFront(buffer, watches_r)
           e == r.event
           o == NamesLoop(e[2], 1, cfg.filter_predicate, cfg.terminal_events)
       IN  /\ buffer' = r.buffer
           /\ CASE r.kind = "return" ->
                     /\ EndOfCycle
                     /\ UNCHANGED <<last_success_return, last_hit_s, exc, decoded,
                                    dropped, yielded, since>>
                [] r.kind = "drop" ->
                     /\ dropped' = Append(dropped, r.header)
                     /\ UNCHANGED <<pc, last_success_return, last_hit_s, chan_out, exc,
                                    decoded, yielded, trace, since>>
                [] r.kind = "yield" ->
                     /\ decoded' = Append(decoded, e)
                     /\ last_hit_s' = now
                     /\ since' = now
                     /\ UNCHANGED dropped
                     /\ CASE o[1] = "return" ->
                               /\ last_success_return' = <<o[2], e>>
                               /\ pc' = "done_filter"
                               /\ UNCHANGED <<chan_out, exc, yielded, trace>>
                          [] o[1] = "raise" ->
                               /\ exc' = <<"TerminalEventException", o[2], e>>
                               /\ pc' = "raised"
                               /\ UNCHANGED <<chan_out, last_success_return, yielded, trace>>
                          [] o[1] = "yield" ->
                               /\ chan_out' = e
                               /\ pc' = "yield_e"
                               /\ yielded' = IF cfg.layer = "channel"
                                             THEN Append(yielded, e) ELSE yielded
                               /\ ChannelYields(e)
                               /\ UNCHANGED <<last_success_return, exc>>
    /\ UNCHANGED <<kqueue, now, made>>
    /\ StreamFrame

\* the consumer asks for the next element: the generators resume after their yield
Pull ==
    /\ \/ cfg.layer = "channel" /\ pc \in {"yield_e", "yield_none"}
       \/ cfg.layer = "tree" /\ pc = "tree_yield"
    /\ pc' = IF chan_out = None THEN "poll" ELSE "decode"
    /\ UNCHANGED <<buffer, kqueue, last_success_return, last_hit_s, now, chan_out, exc,
                   decoded, dropped, yielded, trace, made, since>>
    /\ StreamFrame

-----------------------------------------------------------------------------
(* SpecStream: the event stream of one Inotify object that watches /a as   *)
(* wd 1, while the kernel queues records: for wd 1, for wd 2 (a watch the  *)
(* registry does not hold) and, when its queue is full, the overflow       *)
(* record.  No timeout is configured.                                      *)

\* what the kernel may queue: <<wd, mask, name>>
ArrivalKinds ==
    { <<1, IN_MODIFY, <<"b">>>>, <<1, IN_CREATE + IN_ISDIR, <<"b">>>>,
      <<1, IN_UNMOUNT, <<>>>>, <<2, IN_MODIFY, <<"c">>>> }

\* Inotify(paths=['/a'])
WatchingRoot ==
    /\ fs = FsWithB
    /\ InotifyInit(add_watch(Machine0, FsWithB, RootPath))

\* the kernel queues a record
Arrive(k) ==
    /\ fsops < MaxQueue + 1
    /\ ~Ended
    /\ kqueue' = KEnqueue(kqueue, Record(k[1], k[2], 0, k[3]))
    /\ fsops' = fsops + 1
    /\ UNCHANGED <<watches, watches_r, buffer, last_success_return, kwatch, knext,
                   kcalls, fs, cfg, pc, last_hit_s, now, chan_out, exc, decoded,
                   dropped, yielded, trace, made, since, lastop>>

StreamCfgs ==
    { [DefaultCfg EXCEPT !.yield_nones = y, !.filter_predicate = p,
                         !.terminal_events = t] :
        y \in BOOLEAN, p \in {None, Some({"IN_UNMOUNT"}), Some({"IN_CREATE"})},
        t \in {_DEFAULT_TERMINAL_EVENTS, {"IN_ISDIR"}} }

StreamInit == WatchingRoot /\ cfg \in StreamCfgs

StreamNext ==
    \/ Start
    \/ PollReady
    \/ PollEmpty
    \/ PollInterrupted
    \/ DecodeStep
    \/ Pull
    \/ \E k \in ArrivalKinds : Arrive(k)

SpecStream == StreamInit /\ [][StreamNext]_vars

-----------------------------------------------------------------------------
(* Streams with timeout_s configured, while time passes.  Time is let pass *)
(* only while the stream runs and until the configured timeout is          *)
(* exceeded: from there on the timeout test gives the same answer.         *)

MaxTimeout == 2

Tick ==
    /\ pc # "new"
    /\ ~Ended
    /\ now - last_hit_s <= cfg.timeout_s[1]
    /\ now' = now + 1
    /\ UNCHANGED <<watches, watches_r, buffer, last_success_return, kwatch, knext,
                   kqueue, kcalls, fs, fsops, cfg, pc, last_hit_s, chan_out, exc,
                   decoded, dropped, yielded, trace, made, since, lastop>>

\* the consumer calls event_gen again on the same object: a new generator
Restart ==
    /\ Ended
    /\ fsops < MaxQueue + 1
    /\ fsops' = fsops + 1
    /\ pc' = "new"
    /\ chan_out' = None
    /\ exc' = None
    /\ decoded' = <<>>
    /\ dropped' = <<>>
    /\ yielded' = <<>>
    /\ trace' = <<>>
    /\ lastop' = Op("restart", <<>>, 0, IF last_success_return = None THEN "" ELSE "stopped")
    /\ UNCHANGED <<watches, watches_r, buffer, last_success_return, kwatch, knext,
                   kqueue, kcalls, fs, cfg, last_hit_s, now, made, since>>

(* SpecTimeout: records for wd 1 and for the unknown wd 2 arrive, at most  *)
(* MaxArrival of them.  Fairness: time passes, and the generator and the   *)
(* consumer that pulls from it keep running.                               *)

TimedKinds == { <<1, IN_MODIFY, <<"b">>>>, <<2, IN_MODIFY, <<"c">>>> }

TimedArrive(k) == fsops < MaxArrival /\ Arrive(k)

TimeoutCfgs ==
    { [DefaultCfg EXCEPT !.timeout_s = Some(t), !.yield_nones = y] :
        t \in 1 .. MaxTimeout, y \in BOOLEAN }

TimeoutInit == WatchingRoot /\ cfg \in TimeoutCfgs

\* a step of the generator or of the consumer that pulls from it
Run == Start \/ PollReady \/ PollEmpty \/ DecodeStep \/ Pull

TimeoutNext ==
    \/ Start
    \/ PollReady
    \/ PollEmpty
    \/ PollInterrupted
    \/ DecodeStep
    \/ Pull
    \/ Tick
    \/ \E k \in TimedKinds : TimedArrive(k)

SpecTimeout ==
    /\ TimeoutInit
    /\ [][TimeoutNext]_vars
    /\ WF_vars(Run)
    /\ WF_vars(Tick)

(* SpecFilter: streams with a timeout and a filter predicate; a stream     *)
(* that has ended may be followed by another event_gen call on the object. *)

FilterKinds ==
    { <<1, IN_MODIFY, <<"b">>>>, <<1, IN_CREATE + IN_ISDIR, <<"b">>>>,
      <<1, IN_UNMOUNT, <<>>>> }

FilterCfgs ==
    { [DefaultCfg EXCEPT !.timeout_s = Some(1), !.yield_nones = y,
                         !.filter_predicate = p] :
        y \in BOOLEAN, p \in {None, Some({"IN_ISDIR"})} }

FilterInit == WatchingRoot /\ cfg \in FilterCfgs

FilterNext ==
    \/ Start
    \/ PollReady
    \/ PollEmpty
    \/ PollInterrupted
    \/ DecodeStep
    \/ Pull
    \/ Tick
    \/ Restart
    \/ \E k \in FilterKinds : Arrive(k)

SpecFilter == FilterInit /\ [][FilterNext]_vars

-----------------------------------------------------------------------------
(* SpecDecode: an Inotify object that watches /a as wd 1 and /a/b as wd 2  *)
(* reads a prepared stream of up to MaxRecords records through a transport *)
(* that may end a read anywhere.  wd 3 is a watch the registry does not    *)
(* hold.  While the generator is suspended at a yield the watch on /a/b    *)
(* may be taken out of the registry, as the tree layer does on IN_DELETE.  *)

SubPath == RootPath \o <<Slash, "b">>

StreamKinds ==
    { <<1, IN_MODIFY, <<>>>>, <<2, IN_CREATE + IN_ISDIR, <<"c">>>>,
      <<3, IN_MODIFY, <<>>>> }

Streams == UNION { [1 .. n -> StreamKinds] : n \in 0 .. MaxRecords }

\* the bytes of the records st[from], st[from + 1], ...
RECURSIVE Encode(_, _)
Encode(st, from) ==
    IF from > Len(st) THEN <<>>
    ELSE Record(st[from][1], st[from][2], 0, st[from][3]) \o Encode(st, from + 1)

DecodeCfgs ==
    { [DefaultCfg EXCEPT !.fragment = TRUE, !.stream = st] : st \in Streams }

DecodeInit ==
    /\ fs = FsWithB
    /\ cfg \in DecodeCfgs
    /\ InotifyInit([add_watch(add_watch(Machine0, FsWithB, RootPath), FsWithB, SubPath)
                       EXCEPT !.kqueue = Encode(cfg.stream, 1)])

\* remove_watch(full_path, superficial=True) between two pulls
RemoveBetweenPulls ==
    /\ pc = "yield_e"
    /\ SubPath \in DOMAIN watches
    /\ ApiRemoveWatch(SubPath, "True")

DecodeNext ==
    \/ Start
    \/ PollReady
    \/ PollEmpty
    \/ PollInterrupted
    \/ DecodeStep
    \/ Pull
    \/ RemoveBetweenPulls

SpecDecode == DecodeInit /\ [][DecodeNext]_vars

-----------------------------------------------------------------------------
(* The tree layer: _BaseTree and InotifyTree. *)

\* the elements of a finite set in some order (the order of os.listdir)
RECURSIVE SetToSeq(_)
SetToSeq(S) ==
    IF S = {} THEN <<>>
    ELSE LET x == CHOOSE y \in S : TRUE
         IN  <<x>> \o SetToSeq(S \ {x})

\* _BaseTree.__init__: the lookup parent -> set of child names built from the
\* list ignored_dirs
RECURSIVE IgnoredLookup(_)
IgnoredLookup(ignored_dirs) ==
    IF ignored_dirs = <<>> THEN EmptyDict
    ELSE LET rest == IgnoredLookup(Tail(ignored_dirs))
             split == PathSplit(RStripSlash(Head(ignored_dirs)))
             parent == IF split[1] = <<>> THEN <<".">> ELSE split[1]
             child == split[2]
         IN  IF parent \in DOMAIN rest
             THEN DictSet(rest, parent, rest[parent] \cup {child})
             ELSE DictSet(rest, parent, {child})

\* inotify.add_watch(os.path.join(dirpath, subdir), mask) for each of subdirs
RECURSIVE AddSubdirs(_, _, _, _)
AddSubdirs(s, f, dirpath, subdirs) ==
    IF subdirs = <<>> \/ s.exc # None THEN s
    ELSE AddSubdirs(add_watch(s, f, PathJoin(dirpath, Head(subdirs))), f, dirpath,
                    Tail(subdirs))

\* the loop `for dirpath, subdirs, _f in walk(path)` of _load_tree: stack holds
\* the directories the top-down walk has still to visit
RECURSIVE Walk(_, _, _, _)
Walk(s, f, stack, ignored_dirs) ==
    IF stack = <<>> \/ s.exc # None THEN s
    ELSE LET dirpath == Head(stack)
             subdirs == SetToSeq(SubdirNames(f, dirpath))
             ignored_subdirs == IF dirpath \in DOMAIN ignored_dirs
                                THEN ignored_dirs[dirpath] ELSE {}
             NotIgnored(subdir) == subdir \notin ignored_subdirs
             kept == SelectSeq(subdirs, NotIgnored)
         IN  Walk(AddSubdirs(s, f, dirpath, kept), f,
                  [i \in 1 .. Len(kept) |-> PathJoin(dirpath, kept[i])] \o Tail(stack),
                  ignored_dirs)

\* a _load_tree that watches the directory and does not walk it
_load_tree_top_only(s, f, path, ignored_dirs) ==
    add_watch(s, f, path)

\* _BaseTree._load_tree
_load_tree(s, f, path, ignored_dirs) ==
    LET t == add_watch(s, f, path)
    IN  IF t.exc # None THEN t ELSE Walk(t, f, <<path>>, ignored_dirs)

\* the second and third operand of the condition of _BaseTree.event_gen under
\* which a create or moved-to event loads the new directory, as the claims read them
LoadConditionTolerant(exists, ignore_missing_new_folders, path, filename, ignored_dirs) ==
    /\ exists \/ ignore_missing_new_folders
    /\ path \notin DOMAIN ignored_dirs \/ filename \notin ignored_dirs[path]

\* the second and third operand of the condition of _BaseTree.event_gen under
\* which a create or moved-to event loads the new directory
LoadCondition(exists, ignore_missing_new_folders, path, filename, ignored_dirs) ==
    /\ exists \/ ignore_missing_new_folders = FALSE
    /\ path \notin DOMAIN ignored_dirs \/ filename \notin ignored_dirs[path]

\* the `except inotify.calls.InotifyError: pass` around remove_watch
PassInotifyError(s) ==
    IF s.exc = <<"InotifyError">> THEN [s EXCEPT !.exc = None] ELSE s

\* a tree that keeps the placeholders of its channel to itself
TreeYieldsEventsOnly(x) ==
    trace' = IF x = None THEN trace ELSE Append(trace, <<"tree", x>>)

\* a tree that keeps the events of directories to itself
TreeYieldsFilesOnly(x) ==
    trace' = IF x # None /\ HasBit(x[1].mask, IN_ISDIR)
             THEN trace ELSE Append(trace, <<"tree", x>>)

\* _BaseTree.event_gen yields x (line 398)
TreeYields(x) ==
    trace' = Append(trace, <<"tree", x>>)

\* the body of the for loop of _BaseTree.event_gen for the event the channel
\* yielded, up to its own yield
TreeIntercept ==
    /\ cfg.layer = "tree"
    /\ pc \in {"yield_e", "yield_none"}
    /\ IF chan_out = None
       THEN /\ pc' = "tree_yield"
            /\ TreeYields(chan_out)
            /\ UNCHANGED <<watches, watches_r, kwatch, knext, kqueue, kcalls, exc,
                           yielded, lastop>>
       ELSE LET header == chan_out[1]
                path == chan_out[3]
                filename == chan_out[4]
                full_path == PathJoin(path, filename)
                isdir == HasBit(header.mask, IN_ISDIR)
                s1 == IF /\ isdir
                         /\ HasBit(header.mask, IN_MOVED_TO) \/ HasBit(header.mask, IN_CREATE)
                         /\ LoadCondition(PathExists(fs, full_path),
                                          cfg.ignore_missing_new_folders, path, filename,
                                          cfg.ignored_dirs)
                      THEN _load_tree(Machine, fs, full_path, cfg.ignored_dirs)
                      ELSE Machine
                s2 == IF s1.exc # None \/ ~isdir THEN s1
                      ELSE IF HasBit(header.mask, IN_DELETE)
                      THEN remove_watch(s1, full_path, "True")
                      ELSE IF HasBit(header.mask, IN_MOVED_FROM)
                      THEN PassInotifyError(remove_watch(s1, full_path, "False"))
                      ELSE s1
            IN  /\ Commit(s2)
                /\ exc' = s2.exc
                /\ pc' = IF s2.exc = None THEN "tree_yield" ELSE "raised"
                /\ yielded' = IF s2.exc = None THEN Append(yielded, chan_out) ELSE yielded
                /\ IF s2.exc = None THEN TreeYields(chan_out) ELSE UNCHANGED trace
                /\ lastop' = Op("intercept", full_path, header.wd, "")
    /\ UNCHANGED <<buffer, last_success_return, fs, fsops, cfg, last_hit_s, now,
                   chan_out, decoded, dropped, made, since>>

-----------------------------------------------------------------------------
(* SpecTree: InotifyTree('/a') while directories are made, removed and     *)
(* renamed in /a, below it and in /x.  The kernel queues, for a change in  *)
(* a directory it watches, the record of the change, and IN_IGNORED for a  *)
(* watched directory that is removed; the records a directory gets for its *)
(* own removal or move (IN_DELETE_SELF, IN_MOVE_SELF) carry no IN_ISDIR    *)
(* and are left out.                                                       *)

FsFrame ==
    UNCHANGED <<watches, watches_r, buffer, last_success_return, knext, kcalls, cfg,
                pc, last_hit_s, now, chan_out, exc, decoded, dropped, yielded, trace, since>>

\* the queue after the kernel has reported a change in directory `parent`
Notify(kw, q, parent, mask, cookie, name) ==
    IF WdOf(kw, parent) = 0 THEN q
    ELSE KEnqueue(q, Record(WdOf(kw, parent), mask, cookie, name))

HasEntry(f, parent, name) ==
    \E j \in DOMAIN f : f[j].parent = parent /\ f[j].name = name

\* mkdir(parent/name)
FsMkdir(parent, name) ==
    /\ fsops < MaxOps
    /\ ~Ended
    /\ parent \in DOMAIN fs
    /\ ~HasEntry(fs, parent, name)
    /\ DirInodes \ DOMAIN fs # {}
    /\ LET i == CHOOSE j \in DirInodes \ DOMAIN fs :
                    \A k \in DirInodes \ DOMAIN fs : j <= k
       IN  fs' = (i :> [parent |-> parent, name |-> name]) @@ fs
    /\ kqueue' = Notify(kwatch, kqueue, parent, IN_CREATE + IN_ISDIR, 0, name)
    /\ fsops' = fsops + 1
    /\ lastop' = Op("mkdir", PathJoin(PathOf(fs, parent), name), 0, "")
    /\ made' = Append(made, [wd |-> IF WdOf(kwatch, parent) \in DOMAIN watches_r
                                     THEN WdOf(kwatch, parent) ELSE 0,
                             name |-> name,
                             queued |-> RecordCount(kqueue) < MaxQueue])
    /\ UNCHANGED kwatch
    /\ FsFrame

\* rmdir of the empty directory i: its watch goes with it
FsRmdir(i) ==
    /\ fsops < MaxOps
    /\ ~Ended
    /\ i \in DirInodes \cap DOMAIN fs
    /\ \A j \in DOMAIN fs : fs[j].parent # i
    /\ fs' = [j \in (DOMAIN fs) \ {i} |-> fs[j]]
    /\ LET q == Notify(kwatch, kqueue, fs[i].parent, IN_DELETE + IN_ISDIR, 0, fs[i].name)
           wd == WdOf(kwatch, i)
       IN  IF wd = 0
           THEN kqueue' = q /\ UNCHANGED kwatch
           ELSE /\ kqueue' = KEnqueue(q, Record(wd, IN_IGNORED, 0, <<>>))
                /\ kwatch' = DictDel(kwatch, wd)
    /\ fsops' = fsops + 1
    /\ lastop' = Op("rmdir", PathOf(fs, i), 0, "")
    /\ UNCHANGED made
    /\ FsFrame

\* rename of directory i to parent/name: the watches on it and below it stay
Rename(i, parent, name) ==
    /\ ~Ended
    /\ i \in DirInodes \cap DOMAIN fs
    /\ parent \in DOMAIN fs
    /\ parent # i
    /\ ~IsAncestor(fs, i, parent)
    /\ ~HasEntry(fs, parent, name)
    /\ fs' = [fs EXCEPT ![i] = [parent |-> parent, name |-> name]]
    /\ kqueue' = Notify(kwatch,
                        Notify(kwatch, kqueue, fs[i].parent, IN_MOVED_FROM + IN_ISDIR,
                               fsops + 1, fs[i].name),
                        parent, IN_MOVED_TO + IN_ISDIR, fsops + 1, name)
    /\ fsops' = fsops + 1
    /\ lastop' = Op("rename", PathOf(fs, i), 0, "")
    /\ UNCHANGED <<kwatch, made>>
    /\ FsFrame

FsRename(i, parent, name) == fsops < MaxOps /\ Rename(i, parent, name)

\* /a, /x, /a/b and /a/b/c
FsNested == FsWithB @@ (4 :> [parent |-> 3, name |-> <<"c">>])

\* ignored_dirs=['/a/c/'], ignore_missing_new_folders set or not
TreeCfgs ==
    { [DefaultCfg EXCEPT !.layer = "tree", !.yield_nones = FALSE,
                         !.ignore_missing_new_folders = o,
                         !.ignored_dirs =
                             IgnoredLookup(<< RootPath \o <<Slash, "c", Slash>> >>)] :
        o \in BOOLEAN }

\* InotifyTree('/a', ignored_dirs=['/a/c/'])
TreeInit ==
    /\ fs \in {FsWithB, FsNested}
    /\ cfg \in TreeCfgs
    /\ InotifyInit(_load_tree(Machine0, fs, RootPath, cfg.ignored_dirs))

TreeNext ==
    \/ Start
    \/ PollReady
    \/ PollEmpty
    \/ DecodeStep
    \/ TreeIntercept
    \/ Pull
    \/ \E parent \in 1 .. (MaxDirs + 2), name \in DirNames : FsMkdir(parent, name)
    \/ \E i \in DirInodes : FsRmdir(i)
    \/ \E i \in DirInodes, parent \in 1 .. (MaxDirs + 2), name \in DirNames :
          FsRename(i, parent, name)

SpecTree == TreeInit /\ [][TreeNext]_vars

-----------------------------------------------------------------------------
(* SpecRenames: InotifyTree('/a') over /a/b/c with no ignore list, while   *)
(* directories are renamed, up to MaxRenames times, one rename at a time:  *)
(* each after the consumer has pulled every event of the one before.       *)

MaxRenames == 4

\* nothing is queued, buffered or on its way to the consumer
Idle ==
    /\ pc = "poll"
    /\ kqueue = <<>>
    /\ buffer = <<>>

RenameWhenIdle(i, parent, name) ==
    /\ Idle
    /\ fsops < MaxRenames
    /\ Rename(i, parent, name)

RenamesInit ==
    /\ fs = FsNested
    /\ cfg = [DefaultCfg EXCEPT !.layer = "tree", !.yield_nones = FALSE]
    /\ InotifyInit(_load_tree(Machine0, fs, RootPath, cfg.ignored_dirs))

RenamesNext ==
    \/ Start
    \/ PollReady
    \/ DecodeStep
    \/ TreeIntercept
    \/ Pull
    \/ \E i \in DirInodes, parent \in 1 .. (MaxDirs + 2), name \in DirNames :
          RenameWhenIdle(i, parent, name)

SpecRenames == RenamesInit /\ [][RenamesNext]_vars

-----------------------------------------------------------------------------
(* SpecPlaceholders: InotifyTree('/a') over /a/b whose consumer asks for    *)
(* placeholders (event_gen(yield_nones=True), the default), while           *)
(* directories are made and removed.  The polls that find nothing are       *)
(* counted, so that the history stays finite.                               *)

MaxNones == 2

Placeholders == {i \in DOMAIN trace : trace[i] = <<"channel", None>>}

PollEmptyCounted ==
    /\ Cardinality(Placeholders) < MaxNones
    /\ PollEmpty

PlaceholdersInit ==
    /\ fs = FsWithB
    /\ cfg = [DefaultCfg EXCEPT !.layer = "tree"]
    /\ InotifyInit(_load_tree(Machine0, fs, RootPath, cfg.ignored_dirs))

PlaceholdersNext ==
    \/ Start
    \/ PollReady
    \/ PollEmptyCounted
    \/ DecodeStep
    \/ TreeIntercept
    \/ Pull
    \/ \E parent \in 1 .. (MaxDirs + 2), name \in DirNames : FsMkdir(parent, name)
    \/ \E i \in DirInodes : FsRmdir(i)

SpecPlaceholders == PlaceholdersInit /\ [][PlaceholdersNext]_vars

-----------------------------------------------------------------------------
(* SpecIgnore: InotifyTree(root, ignored_dirs=['/a/c/']) where root names   *)
(* the directory /a as '/a' or as '/a/', over a tree that holds the ignored *)
(* directory or not, while directories are made, removed and renamed.       *)

\* the ways the caller names the root directory /a
TreeRoots == { RootPath, RootPath \o <<Slash>> }

\* /a, /x, /a/c and /a/c/b
FsIgnored ==
    (1 :> [parent |-> 0, name |-> RootPath]) @@ (2 :> [parent |-> 0, name |-> OutsidePath])
    @@ (3 :> [parent |-> 1, name |-> <<"c">>]) @@ (4 :> [parent |-> 3, name |-> <<"b">>])

IgnoreInit ==
    /\ fs \in {FsWithB, FsIgnored}
    /\ cfg = [DefaultCfg EXCEPT !.layer = "tree", !.yield_nones = FALSE,
                                !.ignored_dirs =
                                    IgnoredLookup(<< RootPath \o <<Slash, "c", Slash>> >>)]
    /\ \E root \in TreeRoots :
          InotifyInit(_load_tree(Machine0, fs, root, cfg.ignored_dirs))

SpecIgnore == IgnoreInit /\ [][TreeNext]_vars

-----------------------------------------------------------------------------
(* SpecRace: InotifyTree('/a') over an empty /a, while directories are made *)
(* in /a, in the directories made there, and in /x, and removed and renamed *)
(* again, at any moment between the steps of the stream and the pulls of    *)
(* its consumer.                                                            *)

\* /a and /x
FsRoots ==
    (1 :> [parent |-> 0, name |-> RootPath]) @@ (2 :> [parent |-> 0, name |-> OutsidePath])

RaceInit ==
    /\ fs = FsRoots
    /\ cfg = [DefaultCfg EXCEPT !.layer = "tree", !.yield_nones = FALSE]
    /\ InotifyInit(_load_tree(Machine0, fs, RootPath, cfg.ignored_dirs))

RaceNext ==
    \/ Start
    \/ PollReady
    \/ PollEmpty
    \/ DecodeStep
    \/ TreeIntercept
    \/ Pull
    \/ \E parent \in 1 .. (MaxDirs + 2), name \in DirNames : FsMkdir(parent, name)
    \/ \E i \in DirInodes : FsRmdir(i)
    \/ \E i \in DirInodes, parent \in 1 .. (MaxDirs + 2), name \in DirNames :
          FsRename(i, parent, name)

SpecRace == RaceInit /\ [][RaceNext]_vars

-----------------------------------------------------------------------------
(* SpecRefusal: a caller drives add_watch, remove_watch and                 *)
(* remove_watch_with_id of one Inotify object while the directory /a/b is   *)
(* removed and made again: the kernel drops the watch of a directory that   *)
(* is removed, and refuses to remove a watch it no longer holds.            *)

RefusalNext ==
    \/ \E path \in ApiPaths : ApiAddWatch(path)
    \/ \E path \in ApiPaths, m \in RemovalModes : ApiRemoveWatch(path, m)
    \/ \E wd \in 1 .. knext, m \in RemovalModes : ApiRemoveWatchWithId(wd, m)
    \/ \E i \in DirInodes : FsRmdir(i)
    \/ \E name \in DirNames : FsMkdir(1, name)

SpecRefusal == RegistryInit /\ [][RefusalNext]_vars

-----------------------------------------------------------------------------
(* Claims about the registry. *)

\* C1: after every operation the path->id map and the id->path map are exact
\* inverses: every path maps to an id that maps back to it, and every id maps to
\* a path that maps back to it.
C1_RegistryInverse ==
    /\ \A p \in DOMAIN watches :
          watches[p] \in DOMAIN watches_r /\ watches_r[watches[p]] = p
    /\ \A wd \in DOMAIN watches_r :
          watches_r[wd] \in DOMAIN watches /\ watches[watches_r[wd]] = wd

\* C5: remove_watch(path, superficial=None) and remove_watch_with_id(id,
\* superficial=None) on a registered watch issue the kernel remove-watch call for
\* its watch-id and leave both registry maps as they were.
C5_KernelOnlyRemoval ==
    [][ /\ \A p \in DOMAIN watches :
              lastop' = Op("remove_watch", p, 0, "None")
              => /\ kcalls' = << <<"rm_watch", watches[p]>> >>
                 /\ watches' = watches /\ watches_r' = watches_r
        /\ \A wd \in DOMAIN watches_r :
              lastop' = Op("remove_watch_with_id", <<>>, wd, "None")
              => /\ kcalls' = << <<"rm_watch", wd>> >>
                 /\ watches' = watches /\ watches_r' = watches_r ]_vars

-----------------------------------------------------------------------------
(* Claims about the event stream. *)

EventNames(e) == {e[2][i] : i \in 1 .. Len(e[2])}

\* the position in type_names of the first name for which cond holds, 0 if none
FirstIndex(type_names, cond(_)) ==
    LET hits == {i \in 1 .. Len(type_names) : cond(type_names[i])}
    IN  IF hits = {} THEN 0 ELSE CHOOSE i \in hits : \A j \in hits : i <= j

IsOverflow(header) == HasBit(header.mask, IN_Q_OVERFLOW)

\* C3: with the default terminal event names, once the decoder has consumed the
\* kernel's queue-overflow record the stream has aborted with
\* TerminalEventException carrying that record; the record is never passed over
\* while the stream goes on.
C3_OverflowSurfaced ==
    cfg.terminal_events = _DEFAULT_TERMINAL_EVENTS
    => /\ \A i \in 1 .. Len(dropped) : ~IsOverflow(dropped[i])
       /\ \A i \in 1 .. Len(decoded) :
             IsOverflow(decoded[i][1])
             => /\ pc = "raised"
                /\ exc = <<"TerminalEventException", "IN_Q_OVERFLOW", decoded[i]>>

CarriesTerminal(e) == EventNames(e) \cap cfg.terminal_events # {}

\* C4 as claimed: an event decoded for a registered watch that carries a configured
\* terminal name makes the stream raise TerminalEventException with that event
\* attached; the event is not yielded and no later event is yielded.
C4_TerminalAlwaysRaises ==
    \A i \in 1 .. Len(decoded) :
        CarriesTerminal(decoded[i])
        => /\ pc = "raised"
           /\ exc # None
           /\ exc[1] = "TerminalEventException"
           /\ exc[3] = decoded[i]
           /\ i = Len(decoded)
           /\ yielded = SubSeq(decoded, 1, i - 1)

\* C4 as the code has it: the stream raises TerminalEventException with the event
\* attached, naming the first terminal name of the event, unless the filter
\* predicate returns False for that name or for a name listed before it, and then
\* the stream ends normally with last_success_return holding the event; either way
\* the stream has ended, the event is not yielded and no later event is yielded.
C4_TerminalLaw ==
    \A i \in 1 .. Len(decoded) :
        CarriesTerminal(decoded[i])
        => LET e == decoded[i]
               InTerminal(n) == n \in cfg.terminal_events
               Stops(n) == PredicateSaysFalse(cfg.filter_predicate, n)
               t == FirstIndex(e[2], InTerminal)
               f == FirstIndex(e[2], Stops)
           IN  /\ i = Len(decoded)
               /\ yielded = SubSeq(decoded, 1, i - 1)
               /\ IF f # 0 /\ f <= t
                  THEN pc = "done_filter" /\ last_success_return = <<e[2][f], e>>
                                          /\ exc = None
                  ELSE pc = "raised" /\ exc = <<"TerminalEventException", e[2][t], e>>

\* C4 witness: the stream raised on a terminal event after it had yielded an event
C4_Witness ==
    /\ pc = "raised"
    /\ exc # None
    /\ exc[1] = "TerminalEventException"
    /\ Len(yielded) >= 1

-----------------------------------------------------------------------------
(* Claims about the timeout and the filter predicate. *)

\* a step that passes the end of a poll cycle, where the timeout is tested
CycleBoundary ==
    /\ pc \in {"poll", "decode"}
    /\ pc' \in {"poll", "yield_none", "done_timeout"}
    /\ ~(pc = "poll" /\ pc' = "poll")

\* C8: with timeout_s configured, a step that passes the end of a poll cycle ends
\* the stream exactly when the time since the most recent decoded event (since the
\* start of the stream if there was none) exceeds timeout_s, the stream ends by
\* timeout at no other step, and the stream eventually ends.
C8_TimeoutLaw ==
    /\ [][ /\ CycleBoundary => (pc' = "done_timeout" <=> now - since > cfg.timeout_s[1])
           /\ (pc' = "done_timeout" /\ pc # "done_timeout") => CycleBoundary ]_vars
    /\ <>Ended

\* C8 witness: the stream ended by timeout after an event had reset the clock, later
\* than a stream without events would have ended
C8_Witness ==
    /\ pc = "done_timeout"
    /\ decoded # <<>>
    /\ since > 0
    /\ now > cfg.timeout_s[1] + 1

\* C9: when the filter predicate returns False for a name of a decoded event the
\* stream ends normally: nothing is raised, the event is not yielded, and
\* last_success_return holds that name with that event; when the stream ends by
\* timeout last_success_return is None; so once a stream has ended,
\* last_success_return is not None exactly when the predicate stopped it.
C9_PredicateStop ==
    /\ pc = "done_filter"
       => /\ exc = None
          /\ decoded # <<>>
          /\ yielded = SubSeq(decoded, 1, Len(decoded) - 1)
          /\ last_success_return # None
          /\ last_success_return[2] = decoded[Len(decoded)]
          /\ last_success_return[1] \in EventNames(decoded[Len(decoded)])
          /\ PredicateSaysFalse(cfg.filter_predicate, last_success_return[1])
    /\ pc = "done_timeout" => last_success_return = None
    /\ Ended => (last_success_return # None <=> pc = "done_filter")

\* C9 witness: a stream ended by timeout on an object whose earlier stream the
\* predicate had stopped
C9_Witness ==
    /\ pc = "done_timeout"
    /\ lastop = Op("restart", <<>>, 0, "stopped")

-----------------------------------------------------------------------------
(* Claims about decoding. *)

\* the registry SpecDecode starts from
DecodePaths == (1 :> RootPath) @@ (2 :> SubPath)

\* the header of the record k = <<wd, mask, name>>
HeaderOf(k) ==
    [wd |-> k[1], mask |-> k[2], cookie |-> 0, len |-> Len(NameField(k[3]))]

\* the event that the record k of a registered watch stands for
EventOf(k) == <<HeaderOf(k), _get_event_names(k[2]), DecodePaths[k[1]], k[3]>>

\* the number of records consumed from the buffer
Consumed == Len(decoded) + Len(dropped)

\* the positions i <= n that satisfy keep, in increasing order
Positions(n, keep(_)) ==
    LET kept == {i \in 1 .. n : keep(i)}
    IN  [k \in 1 .. Cardinality(kept) |->
            CHOOSE i \in kept : Cardinality({x \in kept : x < i}) = k - 1]

\* C6: for a stream of records of registered watches, however the reads split
\* it: nothing is passed over, the events decoded so far are the first records
\* of the stream, one event per record and in stream order, and the bytes
\* pending in the buffer followed by the bytes not yet read are exactly the
\* remaining records, less than one whole record of them pending whenever the
\* decoder has returned; so when everything is read the N records have been decoded.
C6_FragmentationIndependent ==
    (\A i \in 1 .. Len(cfg.stream) : cfg.stream[i][1] \in DOMAIN watches_r)
    => /\ dropped = <<>>
       /\ Len(decoded) <= Len(cfg.stream)
       /\ decoded = [i \in 1 .. Len(decoded) |-> EventOf(cfg.stream[i])]
       /\ buffer \o kqueue = Encode(cfg.stream, Len(decoded) + 1)
       /\ (pc \in {"poll", "yield_none"} => RecordCount(buffer) = 0)

\* C6 witness: MaxRecords records were decoded and the last of them came out of
\* a buffer that had held a part of it across reads
C6_Witness ==
    /\ \A i \in 1 .. Len(cfg.stream) : cfg.stream[i][1] \in DOMAIN watches_r
    /\ Len(cfg.stream) = MaxRecords
    /\ Len(decoded) = MaxRecords - 1
    /\ pc = "poll"
    /\ buffer # <<>>
    /\ kqueue # <<>>

\* C7: the records consumed so far are the first records of the stream; those
\* whose watch the registry held when they were decoded (wd 1 always, wd 2 up to
\* the removal of its watch, wd 3 never) have been decoded, each unchanged and in
\* order, the others have been passed over, and the buffer followed by the unread
\* bytes is exactly the rest of the stream: every record was consumed in full.
C7_StaleDropped ==
    LET st == cfg.stream
        n == Consumed
    IN  /\ n <= Len(st)
        /\ buffer \o kqueue = Encode(st, n + 1)
        /\ \E j \in 0 .. n :
              LET Held(i) == st[i][1] = 1 \/ (st[i][1] = 2 /\ i <= j)
                  Stale(i) == ~Held(i)
                  ys == Positions(n, Held)
                  ds == Positions(n, Stale)
              IN  /\ 2 \in DOMAIN watches_r => j = n
                  /\ decoded = [i \in 1 .. Len(ys) |-> EventOf(st[ys[i]])]
                  /\ dropped = [i \in 1 .. Len(ds) |-> HeaderOf(st[ds[i]])]

\* C7 witness: a record of wd 2 was passed over after the watch had been removed
\* between two pulls, and the record of wd 1 behind it was decoded and yielded
C7_Witness ==
    /\ 2 \notin DOMAIN watches_r
    /\ Len(cfg.stream) = MaxRecords
    /\ Consumed = MaxRecords
    /\ cfg.stream[MaxRecords - 1][1] = 2
    /\ cfg.stream[MaxRecords][1] = 1
    /\ Len(dropped) = 1
    /\ dropped[1].wd = 2
    /\ yielded # <<>>
    /\ yielded[Len(yielded)] = EventOf(cfg.stream[MaxRecords])

-----------------------------------------------------------------------------
(* Claims about the tree layer. *)

\* the directory i lies in the tree of /a and neither it nor a directory above it
\* is in the ignore lookup
RECURSIVE Covered(_, _)
Covered(f, i) ==
    IF i = 1 THEN TRUE
    ELSE IF f[i].parent = 0 THEN FALSE
    ELSE LET parent == PathOf(f, f[i].parent)
         IN  /\ (parent \notin DOMAIN cfg.ignored_dirs
                 \/ f[i].name \notin cfg.ignored_dirs[parent])
             /\ Covered(f, f[i].parent)

\* the file system is at rest as far as the stream can tell: every record queued
\* has been read, decoded and handed to the consumer, and the stream is running
AllPulled ==
    /\ pc \in {"poll", "tree_yield"}
    /\ kqueue = <<>>
    /\ buffer = <<>>

\* C2: once every pending event has been pulled (and the kernel queue has not
\* overflowed) the registered paths are exactly the existing directories of the
\* tree of /a that are not ignored and not below an ignored directory.
C2_TreeSynchronized ==
    (AllPulled /\ \A i \in 1 .. Len(dropped) : ~IsOverflow(dropped[i]))
    => DOMAIN watches = {PathOf(fs, i) : i \in {j \in DOMAIN fs : Covered(fs, j)}}

\* a step in which the tree layer handles, between the channel's yield and its
\* own, an event that carries the directory marker and create or moved-to
InterceptsNewDir ==
    /\ cfg.layer = "tree"
    /\ pc = "yield_e"
    /\ pc' \in {"tree_yield", "raised"}
    /\ HasBit(chan_out[1].mask, IN_ISDIR)
    /\ HasBit(chan_out[1].mask, IN_CREATE) \/ HasBit(chan_out[1].mask, IN_MOVED_TO)

NewDirPath == PathJoin(chan_out[3], chan_out[4])

NewDirIgnored ==
    /\ chan_out[3] \in DOMAIN cfg.ignored_dirs
    /\ chan_out[4] \in cfg.ignored_dirs[chan_out[3]]

\* the directory i lies below the directory top with no ignored directory on the
\* way from top down to it
RECURSIVE Below(_, _, _)
Below(f, top, i) ==
    IF f[i].parent = 0 THEN FALSE
    ELSE LET parent == PathOf(f, f[i].parent)
         IN  /\ (parent \notin DOMAIN cfg.ignored_dirs
                 \/ f[i].name \notin cfg.ignored_dirs[parent])
             /\ (f[i].parent = top \/ Below(f, top, f[i].parent))

\* what a recursive load of the new directory leaves behind: the directory and the
\* directories the walk finds below it are registered, or, the directory missing,
\* the kernel's refusal is raised
LoadEffect ==
    IF PathExists(fs, NewDirPath)
    THEN /\ pc' = "tree_yield"
         /\ exc' = None
         /\ NewDirPath \in DOMAIN watches'
         /\ \A i \in DOMAIN fs :
               Below(fs, Resolve(fs, NewDirPath), i) => PathOf(fs, i) \in DOMAIN watches'
    ELSE NewDirPath \notin DOMAIN watches
         => /\ pc' = "raised"
            /\ exc' = <<"InotifyError">>
            /\ kcalls' = << <<"add_watch", NewDirPath>> >>
            /\ watches' = watches

\* what a step without a load leaves behind: no kernel call, the registry as it was,
\* the event handed on
NoLoadEffect ==
    /\ pc' = "tree_yield"
    /\ exc' = None
    /\ kcalls' = <<>>
    /\ watches' = watches
    /\ watches_r' = watches_r

InterceptsDir(bit) ==
    /\ cfg.layer = "tree"
    /\ pc = "yield_e"
    /\ pc' \in {"tree_yield", "raised"}
    /\ HasBit(chan_out[1].mask, IN_ISDIR)
    /\ HasBit(chan_out[1].mask, bit)

\* d without the key k, whether d has it or not
Without(d, k) == [x \in (DOMAIN d) \ {k} |-> d[x]]

\* C11: when the tree layer handles a directory delete event whose path is
\* registered, the path leaves the path->id map and its id leaves the id->path
\* map, every other entry stays, and no kernel call is issued, whatever else
\* has happened before.
C11_DeleteIsRegistryOnly ==
    [][ (InterceptsDir(IN_DELETE) /\ NewDirPath \in DOMAIN watches)
        => /\ watches' = Without(watches, NewDirPath)
           /\ watches_r' = Without(watches_r, watches[NewDirPath])
           /\ kcalls' = <<>>
           /\ kwatch' = kwatch
           /\ kqueue' = kqueue ]_vars

\* C11 witness: the first event handled was the delete event of /a/b, which
\* InotifyTree had registered, and /a/b is registered no more
C11_Witness ==
    /\ cfg.layer = "tree"
    /\ pc = "tree_yield"
    /\ lastop = Op("intercept", SubPath, 1, "")
    /\ yielded = <<chan_out>>
    /\ HasBit(chan_out[1].mask, IN_DELETE)
    /\ HasBit(chan_out[1].mask, IN_ISDIR)
    /\ SubPath \notin DOMAIN watches
    /\ 2 \notin DOMAIN watches_r


\* C12: when the tree layer handles a directory moved-from event, no error
\* reaches the caller and the event is yielded; if the old path is registered,
\* the path and its id leave the registry and the kernel remove-watch call is
\* issued for the id; if it is not registered nothing changes.
C12_MovedFromFullRemoval ==
    [][ InterceptsDir(IN_MOVED_FROM)
        => /\ pc' = "tree_yield"
           /\ exc' = None
           /\ yielded' = Append(yielded, chan_out)
           /\ IF NewDirPath \in DOMAIN watches
              THEN /\ watches' = Without(watches, NewDirPath)
                   /\ watches_r' = Without(watches_r, watches[NewDirPath])
                   /\ kcalls' = << <<"rm_watch", watches[NewDirPath]>> >>
              ELSE /\ watches' = watches
                   /\ watches_r' = watches_r
                   /\ kcalls' = <<>> ]_vars


\* what the generator of a layer ("channel" or "tree") has yielded, in order
YieldedBy(layer) ==
    LET s == SelectSeq(trace, LAMBDA t : t[1] = layer)
    IN  [i \in 1 .. Len(s) |-> s[i][2]]

\* the tree layer holds an element of its channel that it has not yet yielded
TreeHolds == pc \in {"yield_e", "yield_none"}

IgnoredPath(p) ==
    LET pair == PathSplit(RStripSlash(p))
    IN  pair[1] \in DOMAIN cfg.ignored_dirs /\ pair[2] \in cfg.ignored_dirs[pair[1]]

\* directory i is the root of the tree, or below it with no ignored directory on
\* the way down to it (itself included)
RECURSIVE WalkReaches(_, _)
WalkReaches(f, i) ==
    \/ i = 1
    \/ /\ f[i].parent # 0
       /\ ~IgnoredPath(PathOf(f, i))
       /\ WalkReaches(f, f[i].parent)

\* C14: no directory whose (parent, name) pair is in the ignore index is ever
\* registered, neither by the initial walk nor on a later event, and below an
\* ignored directory the initial walk installs nothing; every other directory the
\* initial walk finds is watched.
C14_IgnoredNeverWatched ==
    cfg.layer = "tree" =>
        /\ \A p \in DOMAIN watches : ~IgnoredPath(p)
        /\ pc = "new" /\ fsops = 0 =>
               \A i \in DOMAIN fs : (WdOf(kwatch, i) # 0) = WalkReaches(fs, i)


\* the step is a call of the operation `op` of the registry
Called(op) == fsops' = fsops + 1 /\ lastop'.op = op

\* the call left the registry and the kernel alone and raised nothing
NoOp ==
    /\ exc' = None /\ kcalls' = <<>>
    /\ watches' = watches /\ watches_r' = watches_r
    /\ kwatch' = kwatch /\ kqueue' = kqueue

\* C15: add_watch on a path that is already registered raises nothing, issues no
\* kernel call and leaves both maps of the registry as they were.
C15_DuplicateAddNoOp ==
    [][ (Called("add_watch") /\ lastop'.path \in DOMAIN watches) => NoOp ]_vars

\* add_watch was called for a path that was registered already
C15_Witness ==
    /\ lastop.op = "add_watch"
    /\ lastop.path \in DOMAIN watches
    /\ kcalls = <<>> /\ exc = None

\* C16: remove_watch on a path that is not registered and remove_watch_with_id on
\* an id that is not registered, in any removal mode, raise nothing, issue no
\* kernel call and leave both maps of the registry as they were.
C16_UnknownRemoveNoOp ==
    [][ /\ (Called("remove_watch") /\ lastop'.path \notin DOMAIN watches) => NoOp
        /\ (Called("remove_watch_with_id") /\ lastop'.wd \notin DOMAIN watches_r) => NoOp
      ]_vars

\* a full remove_watch was called for a path that was not registered, on a
\* registry that holds a watch
C16_Witness ==
    /\ lastop.op = "remove_watch" /\ lastop.superficial = "False"
    /\ lastop.path \notin DOMAIN watches
    /\ kcalls = <<>> /\ exc = None
    /\ DOMAIN watches # {} /\ DOMAIN watches_r # {}


\* C17: a poll cycle runs from the poll, with the retries of an interrupted poll,
\* through the decoding of what was read, to the point where the timeout is
\* tested.  With yield_nones a cycle that does not end the stream ends with one
\* placeholder, whether or not events were yielded in it, an interrupted poll
\* yields none by itself, and after the placeholder the next cycle polls; a
\* placeholder is yielded nowhere else, and never without yield_nones.
C17_PlaceholderPerCycle ==
    [][ /\ (CycleBoundary /\ pc' # "done_timeout")
              => (pc' = "yield_none" <=> cfg.yield_nones)
        /\ (pc' = "yield_none" /\ pc # "yield_none")
              => (CycleBoundary /\ cfg.yield_nones /\ chan_out' = None)
        /\ (pc = "yield_none" /\ pc' # "yield_none")
              => (pc' = "poll" /\ cfg.layer = "channel")
        /\ (pc = "decode" /\ pc' = "poll") => ~cfg.yield_nones
      ]_vars

\* a placeholder ends a cycle in which events were decoded and yielded
C17_Witness ==
    /\ cfg.layer = "channel" /\ cfg.yield_nones
    /\ pc = "yield_none" /\ chan_out = None
    /\ yielded # <<>> /\ since > 0
    /\ buffer = <<>>


\* the create events the tree has yielded for the entry `name` of the directory
\* watched as wd
CreatesYielded(wd, name) ==
    {j \in DOMAIN YieldedBy("tree") :
        LET e == YieldedBy("tree")[j]
        IN  /\ e # None
            /\ e[1].wd = wd /\ e[4] = name
            /\ HasBit(e[1].mask, IN_CREATE)}

\* the directories made under the name `name` in the directory watched as wd, at
\* moments when the kernel's queue had room
MadeWatched(wd, name) ==
    {k \in DOMAIN made : made[k].wd = wd /\ made[k].name = name /\ made[k].queued}

TreeHandsBack ==
    /\ cfg.layer = "tree"
    /\ pc = "yield_e"
    /\ pc' = "tree_yield"

\* C19: the registry changes only while the tree layer handles an event, before
\* it yields it.  When it yields a create or moved-to event of a directory that
\* exists and is not ignored, the directory and the directories the walk finds
\* below it are in the registry; when it yields a delete or moved-from event of a
\* directory, the old path is not in the registry.
C19_MutationBeforeHandBack ==
    [][ /\ (cfg.layer = "tree" /\ (watches' # watches \/ watches_r' # watches_r))
              => (pc = "yield_e" /\ pc' \in {"tree_yield", "raised"})
        /\ (TreeHandsBack /\ InterceptsNewDir /\ PathExists(fs, NewDirPath)
                /\ ~NewDirIgnored)
              => /\ NewDirPath \in DOMAIN watches'
                 /\ \A i \in DOMAIN fs :
                       Below(fs, Resolve(fs, NewDirPath), i)
                       => PathOf(fs, i) \in DOMAIN watches'
        /\ (TreeHandsBack /\ (InterceptsDir(IN_DELETE) \/ InterceptsDir(IN_MOVED_FROM)))
              => NewDirPath \notin DOMAIN watches'
      ]_vars

\* the tree has just yielded the create event of a directory in which another
\* directory had been made already: both are in the registry
C19_Witness ==
    /\ cfg.layer = "tree" /\ pc = "tree_yield"
    /\ lastop.op = "intercept"
    /\ chan_out # None
    /\ HasBit(chan_out[1].mask, IN_CREATE) /\ HasBit(chan_out[1].mask, IN_ISDIR)
    /\ lastop.path \in DOMAIN watches
    /\ \E i \in DOMAIN fs :
          /\ fs[i].parent = Resolve(fs, lastop.path)
          /\ fs[i].parent # 0
          /\ PathOf(fs, i) \in DOMAIN watches


\* C20: a full removal of a registered watch, by path or by id, leaves the path
\* out of the map of paths and the id out of the map of ids, whether the kernel
\* removed the watch or refused; an add_watch that the kernel refuses leaves both
\* maps as they were.
C20_ForgetsEvenWhenRefused ==
    [][ /\ (Called("remove_watch") /\ lastop'.superficial = "False"
                /\ lastop'.path \in DOMAIN watches)
              => /\ lastop'.path \notin DOMAIN watches'
                 /\ watches[lastop'.path] \notin DOMAIN watches_r'
        /\ (Called("remove_watch_with_id") /\ lastop'.superficial = "False"
                /\ lastop'.wd \in DOMAIN watches_r)
              => /\ watches_r[lastop'.wd] \notin DOMAIN watches'
                 /\ lastop'.wd \notin DOMAIN watches_r'
        /\ (Called("add_watch") /\ exc' = <<"InotifyError">>)
              => (watches' = watches /\ watches_r' = watches_r)
      ]_vars

\* the kernel has refused the full removal of a registered watch, and the
\* registry holds neither the path nor the id
C20_Witness ==
    /\ lastop.op = "remove_watch" /\ lastop.superficial = "False"
    /\ exc = <<"InotifyError">>
    /\ kcalls # <<>> /\ kcalls[1][1] = "rm_watch"
    /\ lastop.path \notin DOMAIN watches
    /\ kcalls[1][2] \notin DOMAIN watches_r

====
